---- MODULE Spec2Model ----
(***************************************************************************)
(* TinyTales story service: GenerateStoryTool.execute, its fallback        *)
(* builder, the ImageGenerator cascade and the ModelManager singleton.     *)
(*                                                                         *)
(* Text is a sequence of symbols.  A symbol is one punctuation character   *)
(* ( { } [ ] , : " and the blank) or an atom standing for a run of other   *)
(* characters (a key name, a word, a digit).  Python values are tagged     *)
(* records; a dict is the sequence of its <<key, value>> pairs in          *)
(* insertion order, a key being the symbols between its quotes.            *)
(***************************************************************************)
EXTENDS Integers, Sequences, FiniteSets, TLC

(* ---------------------------- bounds ----------------------------------- *)
MaxN == 6        \* largest scene_count a request carries
MaxK == 2        \* most scenes in a story object the text backend writes
MaxClients == 2  \* clients ModelManager.initialize creates in one run
MaxEnv == 2      \* most variables in the environment

(* ------------------------- python values ------------------------------- *)
PyNone == [t |-> "null"]
PyStr(s) == [t |-> "str", s |-> s]
PyNum(n) == [t |-> "num", n |-> n]
PyList(a) == [t |-> "arr", a |-> a]
PyDict(o) == [t |-> "obj", o |-> o]

\* bool(v): None, "", 0, [] and {} are false
Truthy(v) ==
  CASE v.t = "null" -> FALSE
    [] v.t = "str" -> v.s /= <<>>
    [] v.t = "num" -> v.n /= 0
    [] v.t = "arr" -> v.a /= <<>>
    [] v.t = "obj" -> v.o /= <<>>

HasKey(o, k) == \E i \in 1..Len(o) : o[i][1] = k

\* dict.get(k, default) on the pair sequence o
DictGet(o, k, default) ==
  IF HasKey(o, k) THEN o[CHOOSE i \in 1..Len(o) : o[i][1] = k][2] ELSE default

\* d[k] = v : replaces the value in place, or appends a new pair
DictSet(o, k, v) ==
  IF HasKey(o, k)
  THEN [i \in 1..Len(o) |-> IF o[i][1] = k THEN <<k, v>> ELSE o[i]]
  ELSE Append(o, <<k, v>>)

(* ------------------------------ text ----------------------------------- *)
Quote == "\""
Blank == " "
NumVal == ("0" :> 0) @@ ("1" :> 1) @@ ("2" :> 2) @@ ("3" :> 3) @@ ("4" :> 4)
          @@ ("5" :> 5) @@ ("6" :> 6) @@ ("7" :> 7) @@ ("8" :> 8) @@ ("9" :> 9)
NumSym(n) == CHOOSE d \in DOMAIN NumVal : NumVal[d] = n

\* first position at or after i that holds no blank (Len+1 at the end)
SkipWs(txt, i) ==
  CHOOSE j \in i..(Len(txt) + 1) :
    /\ \A k \in i..(j - 1) : txt[k] = Blank
    /\ j = Len(txt) + 1 \/ txt[j] /= Blank

Fail == [ok |-> FALSE]
Ok(v, n) == [ok |-> TRUE, v |-> v, n |-> n]

\* a string literal opening at i: the symbols up to the next quote
ParseString(txt, i) ==
  LET close == {j \in (i + 1)..Len(txt) : txt[j] = Quote} IN
  IF close = {} THEN Fail
  ELSE LET j == CHOOSE c \in close : \A d \in close : c <= d
       IN Ok(SubSeq(txt, i + 1, j - 1), j + 1)

RECURSIVE ParseValue(_, _)
RECURSIVE ParseMembers(_, _, _)
RECURSIVE ParseElements(_, _, _)

\* members of an object, the first key expected at i; acc is the dict so far
ParseMembers(txt, i, acc) ==
  LET j == SkipWs(txt, i) IN
  IF j > Len(txt) \/ txt[j] /= Quote THEN Fail
  ELSE LET key == ParseString(txt, j) IN
    IF ~key.ok THEN Fail
    ELSE LET c == SkipWs(txt, key.n) IN
      IF c > Len(txt) \/ txt[c] /= ":" THEN Fail
      ELSE LET val == ParseValue(txt, c + 1) IN
        IF ~val.ok THEN Fail
        ELSE LET e == SkipWs(txt, val.n)
                 acc2 == DictSet(acc, key.v, val.v) IN
          IF e > Len(txt) THEN Fail
          ELSE IF txt[e] = "," THEN ParseMembers(txt, e + 1, acc2)
          ELSE IF txt[e] = "}" THEN Ok(PyDict(acc2), e + 1)
          ELSE Fail

\* elements of an array, the first value expected at i
ParseElements(txt, i, acc) ==
  LET val == ParseValue(txt, i) IN
  IF ~val.ok THEN Fail
  ELSE LET e == SkipWs(txt, val.n)
           acc2 == Append(acc, val.v) IN
    IF e > Len(txt) THEN Fail
    ELSE IF txt[e] = "," THEN ParseElements(txt, e + 1, acc2)
    ELSE IF txt[e] = "]" THEN Ok(PyList(acc2), e + 1)
    ELSE Fail

ParseValue(txt, i) ==
  LET j == SkipWs(txt, i) IN
  IF j > Len(txt) THEN Fail
  ELSE IF txt[j] = "{" THEN
    LET k == SkipWs(txt, j + 1) IN
    IF k <= Len(txt) /\ txt[k] = "}" THEN Ok(PyDict(<<>>), k + 1)
    ELSE ParseMembers(txt, j + 1, <<>>)
  ELSE IF txt[j] = "[" THEN
    LET k == SkipWs(txt, j + 1) IN
    IF k <= Len(txt) /\ txt[k] = "]" THEN Ok(PyList(<<>>), k + 1)
    ELSE ParseElements(txt, j + 1, <<>>)
  ELSE IF txt[j] = Quote THEN
    LET s == ParseString(txt, j) IN
    IF s.ok THEN Ok(PyStr(s.v), s.n) ELSE Fail
  ELSE IF txt[j] \in DOMAIN NumVal THEN Ok(PyNum(NumVal[txt[j]]), j + 1)
  ELSE IF txt[j] = "null" THEN Ok(PyNone, j + 1)
  ELSE Fail

\* json.loads: one value, nothing but blanks after it; ~ok is JSONDecodeError
JsonLoads(txt) ==
  LET r == ParseValue(txt, 1) IN
  IF r.ok /\ SkipWs(txt, r.n) > Len(txt) THEN r ELSE Fail

RECURSIVE JsonDumps(_)
RECURSIVE DumpSeq(_, _)

\* the items of a list or dict, joined by ", "
DumpSeq(items, isDict) ==
  IF items = <<>> THEN <<>>
  ELSE LET h == Head(items)
           one == IF isDict
                  THEN <<Quote>> \o h[1] \o <<Quote, ":", Blank>> \o JsonDumps(h[2])
                  ELSE JsonDumps(h)
       IN IF Len(items) = 1 THEN one
          ELSE one \o <<",", Blank>> \o DumpSeq(Tail(items), isDict)

\* json.dumps with the default separators
JsonDumps(v) ==
  CASE v.t = "null" -> <<"null">>
    [] v.t = "str" -> <<Quote>> \o v.s \o <<Quote>>
    [] v.t = "num" -> <<NumSym(v.n)>>
    [] v.t = "arr" -> <<"[">> \o DumpSeq(v.a, FALSE) \o <<"]">>
    [] v.t = "obj" -> <<"{">> \o DumpSeq(v.o, TRUE) \o <<"}">>

(* ------------------------- regular expressions ------------------------- *)
WsStar == "\\s*"

\* the position after a match of pat anchored at i, or 0 when there is none;
\* pat is a sequence of literal symbols and WsStar
RECURSIVE MatchEnd(_, _, _)
MatchEnd(txt, i, pat) ==
  IF pat = <<>> THEN i
  ELSE IF Head(pat) = WsStar THEN MatchEnd(txt, SkipWs(txt, i), Tail(pat))
  ELSE IF i <= Len(txt) /\ txt[i] = Head(pat) THEN MatchEnd(txt, i + 1, Tail(pat))
  ELSE 0

\* re.sub(pat, repl, txt) from position i on: the leftmost match at or after
\* i is replaced and the scan resumes behind it (matches do not overlap)
RECURSIVE ReSub(_, _, _, _)
ReSub(txt, i, pat, repl) ==
  LET starts == {j \in i..Len(txt) : MatchEnd(txt, j, pat) > 0} IN
  IF starts = {} THEN SubSeq(txt, i, Len(txt))
  ELSE LET j == CHOOSE a \in starts : \A b \in starts : a <= b
           e == MatchEnd(txt, j, pat)
       IN SubSeq(txt, i, j - 1) \o repl \o ReSub(txt, e, pat, repl)

\* re.search(r'\{.*\}', txt, re.DOTALL): first "{" to last "}", greedy
JsonMatch(txt) ==
  LET opens == {i \in 1..Len(txt) : txt[i] = "{"}
      closes == {i \in 1..Len(txt) : txt[i] = "}"} IN
  IF opens = {} \/ closes = {} THEN Fail
  ELSE LET a == CHOOSE o \in opens : \A x \in opens : o <= x
           b == CHOOSE c \in closes : \A x \in closes : c >= x
       IN IF a < b THEN [ok |-> TRUE, v |-> SubSeq(txt, a, b)] ELSE Fail

\* the substitutions without the one that inserts the missing comma
FixJsonNoComma(json_str) ==
  LET s2 == ReSub(json_str, 1, <<"}", WsStar, "}", WsStar, "]">>, <<"}", "]">>)
      s3 == ReSub(s2, 1, <<",", WsStar, "}">>, <<"}">>)
      s4 == ReSub(s3, 1, <<",", WsStar, "]">>, <<"]">>)
  IN s4

\* the four substitutions applied to the matched span, in source order
FixJson(json_str) ==
  LET s1 == ReSub(json_str, 1, <<"}", WsStar, "{", WsStar, Quote, "scene_number", Quote>>,
                  <<"}", ",", "{", Quote, "scene_number", Quote>>)
      s2 == ReSub(s1, 1, <<"}", WsStar, "}", WsStar, "]">>, <<"}", "]">>)
      s3 == ReSub(s2, 1, <<",", WsStar, "}">>, <<"}">>)
      s4 == ReSub(s3, 1, <<",", WsStar, "]">>, <<"]">>)
  IN s4

\* an extraction that hands on an empty object when the repaired span does
\* not decode
ExtractJsonPartial(result) ==
  LET m == JsonMatch(result) IN
  IF m.ok
  THEN IF JsonLoads(FixJson(m.v)).ok THEN JsonLoads(FixJson(m.v)) ELSE Ok(PyDict(<<>>), 0)
  ELSE Fail

\* the extraction attempted after JSONDecodeError; ~ok is the exception that
\* sends execute to the fallback builder
ExtractJson(result) ==
  LET m == JsonMatch(result) IN
  IF m.ok THEN JsonLoads(FixJson(m.v)) ELSE Fail

(* ------------------------------- state --------------------------------- *)
VARIABLES
  instance,           \* ModelManager._instance: 0 is None, else the client's number
  created,            \* clients constructed so far
  api_key,            \* ImageGenerator.api_key is set
  stability_api_key,  \* ImageGenerator.stability_api_key is set
  pc,                 \* where the execute invocation stands
  input_data,         \* the request of the invocation
  llm_client,         \* the client get_model() returned to the invocation
  result,             \* what llm_client.invoke came to
  story_data,         \* the decoded story object the scene loop works on
  idx,                \* the scene whose generate_image call is awaited
  scenes,             \* the scenes built so far by _generate_story_with_images
  ret,                \* how execute ended
  calls,              \* the generate_image calls of the invocation, in order
  llm_calls,          \* HTTP requests sent to the text backend by the invocation
  mm_log,             \* ModelManager history: n for "client n constructed", 0 for a clear
  request,            \* the GenerateStoryRequest of the running create_story
  chain_result,       \* what get_model and chain.ainvoke came to in create_story
  parsed,             \* what _parse_llm_response came to, Unset when not called
  response,           \* the GenerateStoryResponse of create_story
  other,              \* the locals of a second execute, suspended at an await
  environ,            \* os.environ: the <<name, value>> pairs in iteration order
  toml,               \* what config.toml decodes to, None when there is no file
  config,             \* Config._config
  loaded,             \* Config._loaded
  get_result          \* the last Config.get: its key and what it came to

vars == <<instance, created, api_key, stability_api_key, pc, input_data,
          llm_client, result, story_data, idx, scenes, ret, calls, llm_calls,
          mm_log, request, chain_result, parsed, response, other,
          environ, toml, config, loaded, get_result>>

\* the state of the create route
createVars == <<request, chain_result, parsed, response>>
\* the state of the Config object and what it reads
configVars == <<environ, toml, config, loaded, get_result>>
\* the state of one execute
executeVars == <<input_data, llm_client, result, story_data, idx, scenes, ret, calls,
                 llm_calls>>

(* --------------------------- image generator --------------------------- *)
DataPrefix == "data:image/png;base64,"

\* what a provider's HTTP call can come to
ProviderOutcomes == {"ok", "status", "transport", "malformed", "nodata"}

\* _generate_with_dalle: the data URL on a 200 with data, None on anything else
GenerateWithDalle(outcome) ==
  IF outcome = "ok" THEN PyStr(<<DataPrefix, "b64_json">>) ELSE PyNone

\* the provider's base64 text handed on without the data-URL prefix
GenerateWithStabilityRaw(outcome) ==
  IF outcome = "ok" THEN PyStr(<<"artifact">>) ELSE PyNone

\* _generate_with_stability: the re-encoded first artifact, None on anything else
GenerateWithStability(outcome) ==
  IF outcome = "ok" THEN PyStr(<<DataPrefix, "artifact">>) ELSE PyNone

\* a rendering seeded by the number of images made before it
GenerateMockImageSeeded(prompt, style) ==
  PyStr(<<DataPrefix, "mock:", NumSym(Len(calls))>> \o prompt \o <<"/">> \o style)

\* _generate_mock_image: the locally drawn PNG of the prompt and the style
GenerateMockImage(prompt, style) ==
  PyStr(<<DataPrefix, "mock:">> \o prompt \o <<"/">> \o style)

\* the tiers generate_image calls given which credentials are set
TiersTried(key, stability_key) ==
  IF key THEN <<"dalle">> ELSE IF stability_key THEN <<"stability">> ELSE <<"mock">>

\* for each tier called, whether it produced a payload
TierResults(key, stability_key, outcome) ==
  IF key \/ stability_key THEN <<outcome = "ok">> ELSE <<TRUE>>

\* a generate_image that asks Stability before DALL-E
GenerateImageStabilityFirst(key, stability_key, prompt, style, outcome) ==
  IF stability_key THEN GenerateWithStability(outcome)
  ELSE IF key THEN GenerateWithDalle(outcome)
  ELSE GenerateMockImage(prompt, style)

\* generate_image: the one tier selected by the credentials; both provider
\* helpers catch every exception themselves, so the except branch never runs
GenerateImage(key, stability_key, prompt, style, outcome) ==
  IF key THEN GenerateWithDalle(outcome)
  ELSE IF stability_key THEN GenerateWithStability(outcome)
  ELSE GenerateMockImage(prompt, style)

(* ------------------------- requests and texts -------------------------- *)
K(name) == <<name>>

\* a schema-valid GenerateStoryRequest with scene_count n
Request(n) == [username |-> <<"u">>, prompt |-> <<"p">>, genre |-> <<"g">>,
               age_group |-> <<"a">>, scene_count |-> n]

\* the scene shapes the text backend writes
SceneKinds == {"text", "bare", "image", "textimage"}

\* scene i of a backend story: story_text and image present as the kind says
BackendScene(i, kind) ==
  PyDict(<< <<K("scene_number"), PyNum(i)>> >>
         \o (IF kind \in {"text", "textimage"}
             THEN << <<K("story_text"), PyStr(<<"s", NumSym(i)>>)>> >> ELSE <<>>)
         \o (IF kind \in {"image", "textimage"}
             THEN << <<K("image"), PyStr(<<"img", NumSym(i)>>)>> >> ELSE <<>>))

\* the story object whose scenes have the kinds ks
BackendStory(ks) ==
  PyDict(<< <<K("title"), PyStr(<<"t">>)>>, <<K("theme"), PyStr(<<"th">>)>>,
            <<K("scenes"), PyList([i \in 1..Len(ks) |-> BackendScene(i, ks[i])])>> >>)

KindSeqs == UNION {[1..k -> SceneKinds] : k \in 0..MaxK}

\* directly decodable story objects
StoryTexts == {JsonDumps(BackendStory(ks)) : ks \in KindSeqs}

\* the same objects wrapped in prose
WrappedTexts == {<<"Here", Blank>> \o t \o <<Blank, "enjoy">> : t \in StoryTexts}

\* two scene objects with no comma between them, keyed by key
MissingComma(key) ==
  <<"{", Quote, "scenes", Quote, ":", "[",
    "{", Quote, key, Quote, ":", "1", ",", Quote, "description", Quote, ":", Quote, "a", Quote, "}",
    "{", Quote, key, Quote, ":", "2", ",", Quote, "description", Quote, ":", Quote, "b", Quote, "}",
    "]", "}">>

\* a decodable story whose two scenes both carry the ordinal 2
Misnumbered ==
  JsonDumps(PyDict(<< <<K("title"), PyStr(<<"t">>)>>, <<K("theme"), PyStr(<<"th">>)>>,
                      <<K("scenes"), PyList(<<BackendScene(2, "image"),
                                              BackendScene(2, "image")>>)>> >>))

\* prose around a decodable object whose scene closes a nested object: "}}]"
NestedSpan ==
  <<"Here", Blank, "{", Quote, "scenes", Quote, ":", "[",
    "{", Quote, "scene_number", Quote, ":", "1", ",",
         Quote, "meta", Quote, ":", "{", Quote, "k", Quote, ":", "1", "}", "}",
    "]", "}", Blank, "enjoy">>

\* prose around a decodable object with the string value ", }"
CommaBraceString ==
  <<"Here", Blank, "{", Quote, "title", Quote, ":", Quote, ",", Blank, "}", Quote, "}",
    Blank, "enjoy">>

\* other shapes: undecodable, repairable, and decodable values that are no story
OtherTexts ==
  { <<>>, <<Blank, Blank>>, <<"no", Blank, "json">>, <<"{", "oops">>, <<"}", Blank, "{">>,
    <<"[", "1", "]">>, <<"5">>, <<"null">>, <<Quote, "s", Quote>>, <<"{", "}">>,
    <<"{", Quote, "scenes", Quote, ":", "null", "}">>,
    <<"{", Quote, "scenes", Quote, ":", Quote, Quote, "}">>,
    <<"{", Quote, "scenes", Quote, ":", Quote, "x", Quote, "}">>,
    <<"{", Quote, "scenes", Quote, ":", "[", "1", "]", "}">>,
    <<"{", Quote, "scenes", Quote, ":", "[", "]", ",", "}">>,
    MissingComma("scene_number"), MissingComma("id"), Misnumbered,
    NestedSpan, CommaBraceString }

RawTexts == StoryTexts \cup WrappedTexts \cup OtherTexts

\* what the HTTP call of OllamaClient.invoke can come to
HttpOutcomes == {"ok", "status", "timeout", "transport"}

\* an invoke that posts a second time when the first request failed
InvokeRequestsRetried(outcome) == IF outcome = "ok" THEN 1 ELSE 2

\* the HTTP requests one OllamaClient.invoke sends: a single client.post, with
\* no retry whatever it comes to
InvokeRequests(outcome) == 1

\* an invoke that hands the body of a non-200 response on as the answer
OllamaInvokeStatusAsText(outcome, text) ==
  IF outcome \in {"ok", "status"} THEN [raised |-> FALSE, value |-> text]
  ELSE [raised |-> TRUE, why |-> outcome]

\* OllamaClient.invoke: the response text on a 200, a raised exception otherwise
OllamaInvoke(outcome, text) ==
  IF outcome = "ok" THEN [raised |-> FALSE, value |-> text]
  ELSE [raised |-> TRUE, why |-> outcome]

(* ------------------------------ schemas --------------------------------- *)
\* the fields of the pydantic models of schemas.py
SchemaFields ==
  [GenerateStoryResponse |-> [required |-> {"success"},
                              optional |-> {"data", "error", "metadata"}],
   OutputSchema |-> [required |-> {"result"}, optional |-> {}]]

\* GenerateStoryTool.get_output_schema, bound by register_routes as the
\* response_model of the execute route
GetOutputSchema == "GenerateStoryResponse"

\* _get_scene_description: the generic description of ordinal scene_id
GetSceneDescription(scene_id) ==
  CASE scene_id = 1 -> <<"The beginning of our adventure">>
    [] scene_id = 2 -> <<"The journey begins">>
    [] scene_id = 3 -> <<"A challenge appears">>
    [] scene_id = 4 -> <<"Overcoming obstacles">>
    [] scene_id = 5 -> <<"The happy ending">>
    [] OTHER -> <<"Scene ", NumSym(scene_id), " of the story">>

Unset == [t |-> "unset"]
Pending == [kind |-> "pending"]

\* OutputSchema(result=json.dumps(story_data))
OutputSchema(sd) == [kind |-> "OutputSchema", result |-> JsonDumps(sd)]
\* execute runs off its end without a return statement
ReturnsNone == [kind |-> "None"]
\* raise HTTPException(status_code=500, ...)
HTTPException == [kind |-> "HTTPException", status_code |-> 500]

(* ---------------------------- ModelManager ------------------------------ *)
\* ModelManager.get_model: the instance, or RuntimeError when there is none
GetModel(inst) == IF inst = 0 THEN [raised |-> TRUE] ELSE [raised |-> FALSE, value |-> inst]

\* an initialize without the "_instance is None" test: it constructs a client
\* whenever the configuration is good, replacing the one that exists
InitializeAlways ==
  /\ pc = "idle"
  /\ created < MaxClients
  /\ \E config_ok \in BOOLEAN :
       IF config_ok
       THEN /\ instance' = created + 1 /\ created' = created + 1
            /\ mm_log' = Append(mm_log, created + 1)
       ELSE UNCHANGED <<instance, created, mm_log>>
  /\ UNCHANGED <<api_key, stability_api_key, pc, input_data, llm_client, result,
                 story_data, idx, scenes, ret, calls, llm_calls, createVars, other, configVars>>

\* ModelManager.initialize: constructs a client only when none exists and the
\* configuration is usable; otherwise (client exists, or RuntimeError) no change.
\* The application calls it from lifespan, outside any request.
Initialize ==
  /\ pc = "idle"
  /\ created < MaxClients
  /\ \E config_ok \in BOOLEAN :
       IF instance = 0 /\ config_ok
       THEN /\ instance' = created + 1 /\ created' = created + 1
            /\ mm_log' = Append(mm_log, created + 1)
       ELSE UNCHANGED <<instance, created, mm_log>>
  /\ UNCHANGED <<api_key, stability_api_key, pc, input_data, llm_client, result,
                 story_data, idx, scenes, ret, calls, llm_calls, createVars, other, configVars>>

\* ModelManager.clear, called from lifespan at shutdown
Clear ==
  /\ pc = "idle"
  /\ instance /= 0
  /\ instance' = 0
  /\ mm_log' = Append(mm_log, 0)
  /\ UNCHANGED <<created, api_key, stability_api_key, pc, input_data, llm_client,
                 result, story_data, idx, scenes, ret, calls, llm_calls, createVars, other, configVars>>

(* ----------------------------- scene loop ------------------------------- *)
\* values a for statement can iterate, and what it yields
Iterable(v) == v.t \in {"arr", "str", "obj"}
IterItems(v) ==
  CASE v.t = "arr" -> v.a
    [] v.t = "str" -> [i \in 1..Len(v.s) |-> PyStr(<<v.s[i]>>)]
    [] v.t = "obj" -> [i \in 1..Len(v.o) |-> PyStr(v.o[i][1])]

\* the for loop of execute from item k up to its next await:
\*   "raise"  an exception reaches `except Exception as llm_error`
\*   "await"  generate_image is called for scene idx (no text, no image)
\*   "return" the loop is over
\* A scene with story text raises at once: its style argument is
\* story_data.get('animated','theme', 'digital art'), and dict.get takes at
\* most two arguments, so the call under it is never made.
RECURSIVE LoopFrom(_, _)
LoopFrom(items, k) ==
  IF k > Len(items) THEN [st |-> "return"]
  ELSE LET scene == items[k] IN
    IF scene.t /= "obj" THEN [st |-> "raise"]
    ELSE IF Truthy(DictGet(scene.o, K("story_text"), PyStr(<<>>))) THEN [st |-> "raise"]
    ELSE IF Truthy(DictGet(scene.o, K("image"), PyNone)) THEN LoopFrom(items, k + 1)
    ELSE [st |-> "await", idx |-> k]

\* a loop that starts over from the first scene after every await, so that a
\* scene whose image came back empty is asked for again
SceneLoopRestarted(sd, k) ==
  IF sd.t /= "obj" THEN [st |-> "raise"]
  ELSE LET sc == DictGet(sd.o, K("scenes"), PyList(<<>>)) IN
    IF ~Iterable(sc) THEN [st |-> "raise"] ELSE LoopFrom(IterItems(sc), 1)

\* scenes = story_data.get('scenes', []) and the loop over it from item k
SceneLoop(sd, k) ==
  IF sd.t /= "obj" THEN [st |-> "raise"]
  ELSE LET sc == DictGet(sd.o, K("scenes"), PyList(<<>>)) IN
    IF ~Iterable(sc) THEN [st |-> "raise"] ELSE LoopFrom(IterItems(sc), k)

\* scene['image'] = img on scene k of story_data
SetSceneImage(sd, k, img) ==
  LET sc == DictGet(sd.o, K("scenes"), PyList(<<>>)) IN
  PyDict(DictSet(sd.o, K("scenes"),
                 PyList([sc.a EXCEPT ![k] = PyDict(DictSet(@.o, K("image"), img))])))

(* --------------------------- fallback builder --------------------------- *)
\* scene_descriptions of _generate_story_with_images
SceneDescriptions(prompt) ==
  << <<"Scene 1: The beginning of ">> \o prompt,
     <<"Scene 2: The adventure continues with ">> \o prompt,
     <<"Scene 3: A challenge appears in ">> \o prompt,
     <<"Scene 4: Overcoming obstacles in ">> \o prompt,
     <<"Scene 5: The happy ending of ">> \o prompt >>

\* the dict appended for scene i
FallbackScene(i, description, image_data) ==
  PyDict(<< <<K("scene_number"), PyNum(i)>>, <<K("story_text"), PyStr(description)>>,
            <<K("image"), image_data>> >>)

\* story_data of _generate_story_with_images
FallbackStory(req, sc) ==
  PyDict(<< <<K("title"), PyStr(<<"Adventure of ">> \o req.prompt)>>,
            <<K("theme"), PyStr(req.genre)>>,
            <<K("target_age"), PyStr(req.age_group \o <<" years">>)>>,
            <<K("scenes"), PyList(sc)>> >>)

(* ------------------------------ execute --------------------------------- *)
\* result.strip() == "" (the empty text included)
IsBlankText(txt) == \A i \in 1..Len(txt) : txt[i] = Blank

\* one generate_image call as the log keeps it: arguments, return value, the
\* tiers called and whether each produced a payload
ImageCall(prompt, style, outcome, returned) ==
  [prompt |-> prompt, style |-> style, returned |-> returned,
   tiers |-> TiersTried(api_key, stability_api_key),
   produced |-> TierResults(api_key, stability_api_key, outcome)]

\* control passes to _generate_story_with_images
EnterFallback ==
  /\ pc' = "fallback"
  /\ scenes' = <<>>
  /\ idx' = 0
  /\ ret' = Pending

\* the scene loop has stopped at go with the story object sd
Proceed(sd, go) ==
  IF go.st = "raise" THEN EnterFallback
  ELSE IF go.st = "await"
  THEN pc' = "images" /\ idx' = go.idx /\ scenes' = <<>> /\ ret' = Pending
  ELSE pc' = "done" /\ idx' = 0 /\ scenes' = <<>> /\ ret' = OutputSchema(sd)

\* execute up to its first await: get_model() and the formatted prompt.
\* With no client the RuntimeError reaches the outer handler, which raises
\* HTTPException(500).  The "summarize" prompt file is deployment data and
\* is taken to be present.
ExecuteStartWith(req) ==
  /\ pc = "idle"
  /\ input_data' = req
  /\ LET m == GetModel(instance) IN
       IF m.raised
       THEN pc' = "done" /\ ret' = HTTPException /\ llm_client' = 0
       ELSE pc' = "invoke" /\ ret' = Pending /\ llm_client' = m.value
  /\ UNCHANGED <<instance, created, api_key, stability_api_key, result, story_data,
                 idx, scenes, calls, llm_calls, mm_log, createVars, other, configVars>>

\* a request with any scene_count arrives
ExecuteStart == \E n \in 1..MaxN : ExecuteStartWith(Request(n))

\* llm_client.invoke returns or raises, and execute runs on to its next
\* await or to its end
ExecuteInvoke ==
  /\ pc = "invoke"
  /\ \E outcome \in HttpOutcomes, text \in RawTexts :
       LET r == OllamaInvoke(outcome, text) IN
       /\ result' = r
       /\ llm_calls' = llm_calls + InvokeRequests(outcome)
       /\ IF r.raised \/ IsBlankText(r.value)
          THEN EnterFallback /\ story_data' = Unset
          ELSE LET d == JsonLoads(r.value) IN
            IF d.ok
            THEN story_data' = d.v /\ Proceed(d.v, SceneLoop(d.v, 1))
            ELSE LET x == ExtractJson(r.value) IN
              IF x.ok
              THEN \* story_data is assigned and nothing follows the handler
                   /\ story_data' = x.v
                   /\ pc' = "done" /\ ret' = ReturnsNone /\ idx' = 0 /\ scenes' = <<>>
              ELSE EnterFallback /\ story_data' = Unset
  /\ UNCHANGED <<instance, created, api_key, stability_api_key, input_data,
                 llm_client, calls, mm_log, createVars, other, configVars>>

\* generate_image(prompt=input_data.prompt, style='digital art') returns for
\* scene idx; the result is stored whatever it is and the loop goes on
ExecuteImage ==
  /\ pc = "images"
  /\ \E outcome \in ProviderOutcomes :
       LET style == <<"digital art">>
           img == GenerateImage(api_key, stability_api_key, input_data.prompt, style, outcome)
           sd == SetSceneImage(story_data, idx, img)
       IN /\ story_data' = sd
          /\ Proceed(sd, SceneLoop(sd, idx + 1))
          /\ calls' = Append(calls, ImageCall(input_data.prompt, style, outcome, img))
  /\ UNCHANGED <<instance, created, api_key, stability_api_key, input_data,
                 llm_client, result, llm_calls, mm_log, createVars, other, configVars>>

\* one turn of the loop of _generate_story_with_images: generate_image returns
\* for the next description; after the last one the story is returned.
\* Nothing in the try block raises (generate_image returns None rather than
\* raising), so the one-scene story of the except branch is never built.
ExecuteFallback ==
  /\ pc = "fallback"
  /\ \E outcome \in ProviderOutcomes :
       LET scene_descriptions == SceneDescriptions(input_data.prompt)
           i == Len(scenes) + 1
           description == scene_descriptions[i]
           image_data == GenerateImage(api_key, stability_api_key, description,
                                       input_data.genre, outcome)
           sc == Append(scenes, FallbackScene(i, description, image_data))
       IN /\ scenes' = sc
          /\ calls' = Append(calls, ImageCall(description, input_data.genre, outcome, image_data))
          /\ IF i < Len(scene_descriptions)
             THEN UNCHANGED <<pc, ret>>
             ELSE pc' = "done" /\ ret' = OutputSchema(FallbackStory(input_data, sc))
  /\ UNCHANGED <<instance, created, api_key, stability_api_key, input_data,
                 llm_client, result, story_data, idx, llm_calls, mm_log, createVars, other, configVars>>

\* the invocation is over; the next request starts from fresh locals
ExecuteReturn ==
  /\ pc = "done"
  /\ pc' = "idle"
  /\ input_data' = Unset /\ llm_client' = 0 /\ result' = Unset /\ story_data' = Unset
  /\ idx' = 0 /\ scenes' = <<>> /\ ret' = Pending /\ calls' = <<>>
  /\ llm_calls' = 0
  /\ UNCHANGED <<instance, created, api_key, stability_api_key, mm_log, createVars, other, configVars>>

(* ------------------------- the /create route --------------------------- *)
Raised == [raised |-> TRUE]
Value(v) == [raised |-> FALSE, value |-> v]

\* the scene shapes the backend writes for the create route
CreateSceneKinds == {"full", "nodesc", "emptydesc", "nulldesc", "numdesc", "noprompt"}

\* scene i of a story in the format of STORY_GENERATION_PROMPT; the backend
\* numbers its scenes as it likes
CreateScene(i, kind) ==
  PyDict(<< <<K("id"), PyNum(9)>> >>
         \o (CASE kind \in {"full", "noprompt"} ->
                    << <<K("description"), PyStr(<<"d", NumSym(i)>>)>> >>
               [] kind = "emptydesc" -> << <<K("description"), PyStr(<<>>)>> >>
               [] kind = "nulldesc" -> << <<K("description"), PyNone>> >>
               [] kind = "numdesc" -> << <<K("description"), PyNum(7)>> >>
               [] OTHER -> <<>>)
         \o (IF kind = "noprompt" THEN <<>>
             ELSE << <<K("imagePrompt"), PyStr(<<"ip", NumSym(i)>>)>> >>))

CreateStory(ks) ==
  PyDict(<< <<K("title"), PyStr(<<"t">>)>>,
            <<K("scenes"), PyList([i \in 1..Len(ks) |-> CreateScene(i, ks[i])])>> >>)

CreateKindSeqs == UNION {[1..k -> CreateSceneKinds] : k \in 0..MaxK}

\* what the chain can return: stories, undecodable text, JSON of other shapes
CreateTexts ==
  {JsonDumps(CreateStory(ks)) : ks \in CreateKindSeqs}
  \cup { <<"no", Blank, "json">>, <<"[", "1", "]">>, <<"{", "}">>,
         <<"{", Quote, "scenes", Quote, ":", "null", "}">>,
         <<"{", Quote, "scenes", Quote, ":", "[", "1", "]", "}">>,
         <<"{", Quote, "title", Quote, ":", "null", ",",
           Quote, "scenes", Quote, ":", "[", "]", "}">> }

StoryScene(id, description, imagePrompt) ==
  [id |-> id, description |-> description, imagePrompt |-> imagePrompt,
   imageUrl |-> PyNone]

Story(title, sc) == [title |-> title, scenes |-> sc]

\* _get_image_prompt: the generic image words of ordinal scene_id
GetImagePrompt(scene_id) ==
  CASE scene_id = 1 -> <<"beginning, colorful, detailed">>
    [] scene_id = 2 -> <<"journey, adventure, vibrant">>
    [] scene_id = 3 -> <<"challenge, dramatic, intense">>
    [] scene_id = 4 -> <<"victory, triumph, bright">>
    [] scene_id = 5 -> <<"ending, happy, peaceful">>
    [] OTHER -> <<"scene, colorful, detailed">>

\* the scene both _generate_mock_story and the padding loop construct for
\* ordinal n
GenericScene(n, req) ==
  StoryScene(n, <<"Scene ", NumSym(n), ": ">> \o GetSceneDescription(n),
             req.prompt \o <<" - scene ", NumSym(n), ", ">> \o GetImagePrompt(n)
               \o <<", ">> \o req.genre \o <<" style, colorful, detailed">>)

\* _generate_mock_story: scene_count generic scenes
GenerateMockStory(req) ==
  Story(<<"Adventure of ">> \o req.prompt,
        [n \in 1..req.scene_count |-> GenericScene(n, req)])

\* a validation that compares the scene count only
ValidateStoryCountOnly(story, req) ==
  Len(story.scenes) = req.scene_count

\* _validate_story: TRUE when it returns, FALSE when it raises ValueError
ValidateStory(story, req) ==
  /\ Len(story.scenes) = req.scene_count
  /\ \A i \in 1..Len(story.scenes) :
       story.scenes[i].description /= <<>> /\ story.scenes[i].imagePrompt /= <<>>

\* pydantic's validation of a str field: a string passes; a number is made a
\* string by pydantic 1 (lax) and rejected by pydantic 2; anything else is
\* rejected
StrField(v, lax) ==
  IF v.t = "str" THEN [ok |-> TRUE, s |-> v.s]
  ELSE IF v.t = "num" /\ lax THEN [ok |-> TRUE, s |-> <<NumSym(v.n)>>]
  ELSE [ok |-> FALSE]

\* a reconciliation that pads but never cuts
ReconcileNoCut(sc, req) ==
  sc \o [j \in 1..(req.scene_count - Len(sc)) |-> GenericScene(Len(sc) + j, req)]

\* the padding loop and the final slice of _parse_llm_response; a negative
\* count slices from the end, scenes[:-1] dropping the last scene
Reconcile(sc, req) ==
  LET padded == sc \o [j \in 1..(req.scene_count - Len(sc)) |->
                         GenericScene(Len(sc) + j, req)]
  IN IF req.scene_count >= 0 THEN SubSeq(padded, 1, req.scene_count)
     ELSE SubSeq(padded, 1, Len(padded) + req.scene_count)

\* _parse_llm_response: the Story, or ValueError for whatever was raised inside
ParseLlmResponse(story_json, req, lax) ==
  IF story_json.t /= "obj" THEN Raised
  ELSE
    LET title == StrField(DictGet(story_json.o, K("title"),
                                  PyStr(<<"Adventure of ">> \o req.prompt)), lax)
        scenes_data == DictGet(story_json.o, K("scenes"), PyList(<<>>))
    IN IF ~Iterable(scenes_data) THEN Raised
       ELSE
         LET items == IterItems(scenes_data)
             description(i) ==
               StrField(DictGet(items[i].o, K("description"),
                                PyStr(<<"Scene ", NumSym(i)>>)), lax)
             imagePrompt(i) ==
               StrField(DictGet(items[i].o, K("imagePrompt"),
                                PyStr(req.prompt \o <<" - scene ", NumSym(i)>>)), lax)
         IN IF \E i \in 1..Len(items) :
                 \/ items[i].t /= "obj"
                 \/ ~description(i).ok
                 \/ ~imagePrompt(i).ok
            THEN Raised
            ELSE IF ~title.ok THEN Raised
            ELSE Value(Story(title.s,
                             Reconcile([i \in 1..Len(items) |->
                                          StoryScene(i, description(i).s, imagePrompt(i).s)],
                                       req)))

\* json.loads of each text the chain can return
StoryJsonOf == [text \in CreateTexts |-> JsonLoads(text)]

\* what _parse_llm_response came to for the chain's result, Unset when the
\* chain raised or its text did not decode
ParsedOf(chain, req, lax) ==
  IF chain.raised \/ ~StoryJsonOf[chain.value].ok THEN Unset
  ELSE ParseLlmResponse(StoryJsonOf[chain.value].v, req, lax)

\* _generate_story_with_llm after the chain: the parsed story when it decodes,
\* parses and validates, the mock story otherwise
GenerateStoryWithLlm(chain, req, lax) ==
  LET p == ParsedOf(chain, req, lax) IN
  IF p = Unset \/ p.raised THEN GenerateMockStory(req)
  ELSE IF ~ValidateStory(p.value, req) THEN GenerateMockStory(req)
  ELSE p.value

\* str(e) of the HTTPException _generate_story raises for a failed validation
ValidationError(story, req) ==
  <<"500: Expected ">>
    \o (IF req.scene_count < 0 THEN <<"-", NumSym(-req.scene_count)>>
        ELSE <<NumSym(req.scene_count)>>)
    \o <<" scenes, got ", NumSym(Len(story.scenes))>>

\* a handler that answers success=True from its except branch
CreateStoryResponseAlwaysSuccess(story, req) ==
  IF ValidateStory(story, req)
  THEN [success |-> TRUE, data |-> story, error |-> PyNone]
  ELSE [success |-> TRUE, data |-> PyNone, error |-> PyNone]

\* _generate_story and create_story: the story is validated once more; the
\* HTTPException of a failed validation becomes a success=False response
CreateStoryResponse(story, req) ==
  IF ValidateStory(story, req)
  THEN [success |-> TRUE, data |-> story, error |-> PyNone]
  ELSE [success |-> FALSE, data |-> PyNone,
        error |-> PyStr(<<"Failed to generate story: ">> \o ValidationError(story, req))]

\* create_story up to the await of the chain; get_model's RuntimeError is caught
\* by _generate_story_with_llm, which then returns the mock story
CreateStart ==
  /\ pc = "idle"
  /\ \E n \in (0..MaxN) \cup {-1} :
       /\ request' = Request(n)
       /\ IF GetModel(instance).raised
          THEN /\ chain_result' = Raised
               /\ parsed' = Unset
               /\ response' = CreateStoryResponse(
                                GenerateStoryWithLlm(Raised, Request(n), FALSE), Request(n))
               /\ pc' = "created"
          ELSE /\ pc' = "chain"
               /\ UNCHANGED <<chain_result, parsed, response>>
  /\ UNCHANGED <<instance, created, api_key, stability_api_key, mm_log, executeVars, other, configVars>>

\* chain.ainvoke raises or returns a text; the rest of create_story runs
\* without another await
CreateChain ==
  /\ pc = "chain"
  /\ \E chain \in {Raised} \cup {Value(text) : text \in CreateTexts}, lax \in BOOLEAN :
       /\ chain_result' = chain
       /\ parsed' = ParsedOf(chain, request, lax)
       /\ response' = CreateStoryResponse(GenerateStoryWithLlm(chain, request, lax), request)
  /\ pc' = "created"
  /\ UNCHANGED <<instance, created, api_key, stability_api_key, mm_log, request,
                 executeVars, other, configVars>>

\* the response goes out
CreateReturn ==
  /\ pc = "created"
  /\ pc' = "idle"
  /\ request' = Unset /\ chain_result' = Unset /\ parsed' = Unset /\ response' = Pending
  /\ UNCHANGED <<instance, created, api_key, stability_api_key, mm_log, executeVars, other, configVars>>

(* ------------------------------- Config --------------------------------- *)
\* A configuration name is the sequence of the words its underscores
\* separate: "port" is <<"port">>, "base_url" is <<"base", "url">>.  A dotted
\* key is the sequence of its names, an environment name the sequence of its
\* words: APP_SERVER_PORT is <<"APP", "SERVER", "PORT">>.
PyBool(b) == [t |-> "bool", b |-> b]
PyFloat(s) == [t |-> "float", s |-> s]

\* str.lower on the words environment names and values are made of
Lower(word) ==
  CASE word = "SERVER" -> "server"
    [] word = "PORT" -> "port"
    [] word = "LLM" -> "llm"
    [] word = "OLLAMA" -> "ollama"
    [] word = "BASE" -> "base"
    [] word = "URL" -> "url"
    [] word = "AUTH" -> "auth"
    [] word = "ENABLED" -> "enabled"
    [] word = "TRUE" -> "true"
    [] OTHER -> word

\* int(value) of the digit strings in use
IntOf == ("8080" :> 8080) @@ ("9000" :> 9000)

\* the typed value _load_from_environment makes of a variable's text
TypedValue(value) ==
  IF Lower(value) \in {"true", "yes", "1"} THEN PyBool(TRUE)
  ELSE IF Lower(value) \in {"false", "no", "0"} THEN PyBool(FALSE)
  ELSE IF value \in DOMAIN IntOf THEN PyNum(IntOf[value])
  ELSE IF value \in {"1.5"} THEN PyFloat(value)
  ELSE PyStr(<<value>>)

\* _get_default_config
GetDefaultConfig ==
  PyDict(<<
    << <<"app">>, PyDict(<< << <<"name">>, PyStr(<<"llm">>)>>,
                            << <<"description">>, PyStr(<<"picture story generation">>)>>,
                            << <<"version">>, PyStr(<<"0.1.0">>)>> >>) >>,
    << <<"server">>, PyDict(<< << <<"host">>, PyStr(<<"0.0.0.0">>)>>,
                               << <<"port">>, PyNum(8000)>>,
                               << <<"reload">>, PyBool(FALSE)>>,
                               << <<"docker">>, PyBool(TRUE)>> >>) >>,
    << <<"auth">>, PyDict(<< << <<"enabled">>, PyBool(FALSE)>>,
                             << <<"provider">>, PyStr(<<"sso">>)>> >>) >>,
    << <<"llm">>, PyDict(<< << <<"enabled">>, PyBool(TRUE)>>,
                            << <<"provider">>, PyStr(<<"ollama">>)>>,
                            << <<"ollama">>,
                               PyDict(<< << <<"base", "url">>,
                                            PyStr(<<"http://localhost:11434">>)>>,
                                         << <<"model">>, PyStr(<<"llama3">>)>> >>) >> >>) >>,
    << <<"tools">>, PyDict(<< << <<"defaults">>, PyDict(<<>>)>>,
                              << <<"sample", "tool">>,
                                 PyDict(<< << <<"timeout">>, PyNum(30)>> >>) >> >>) >> >>)

\* the "build nested dictionary" loop from the dict current on: current with
\* typed_value stored under parts, or TypeError when a part on the way already
\* holds a scalar
RECURSIVE SetPath(_, _, _)
SetPath(current, parts, typed_value) ==
  IF current.t /= "obj" THEN Raised
  ELSE IF Len(parts) = 1
  THEN Value(PyDict(DictSet(current.o, parts[1], typed_value)))
  ELSE LET sub == DictGet(current.o, parts[1], PyDict(<<>>))
           r == SetPath(sub, Tail(parts), typed_value)
       IN IF r.raised THEN Raised
          ELSE Value(PyDict(DictSet(current.o, parts[1], r.value)))

\* the loop of _load_from_environment from variable i on, res being the
\* dict built so far
RECURSIVE LoadFromEnvironmentFrom(_, _, _)
LoadFromEnvironmentFrom(env, i, res) ==
  IF i > Len(env) THEN Value(res)
  ELSE LET key == env[i][1]
           value == env[i][2]
       IN IF ~(Len(key) >= 2 /\ key[1] = "APP")
          THEN LoadFromEnvironmentFrom(env, i + 1, res)
          ELSE LET parts == [j \in 1..(Len(key) - 1) |-> <<Lower(key[j + 1])>>]
                   r == SetPath(res, parts, TypedValue(value))
               IN IF r.raised THEN Raised
                  ELSE LoadFromEnvironmentFrom(env, i + 1, r.value)

\* _load_from_environment: the nested dict of the APP_ variables, or TypeError
LoadFromEnvironment(env) == LoadFromEnvironmentFrom(env, 1, PyDict(<<>>))

\* _merge_config: target after source has been merged into it
RECURSIVE MergeConfig(_, _)
MergeConfig(target, source) ==
  IF source.o = <<>> THEN target
  ELSE LET key == source.o[1][1]
           value == source.o[1][2]
           merged ==
             IF /\ HasKey(target.o, key)
                /\ DictGet(target.o, key, PyNone).t = "obj"
                /\ value.t = "obj"
             THEN DictSet(target.o, key, MergeConfig(DictGet(target.o, key, PyNone), value))
             ELSE DictSet(target.o, key, value)
       IN MergeConfig(PyDict(merged), PyDict(Tail(source.o)))

\* load up to the environment: the defaults with the root config file merged in
WithRootConfig(root_config) ==
  IF root_config /= PyNone /\ root_config.o /= <<>>
  THEN MergeConfig(GetDefaultConfig, root_config)
  ELSE GetDefaultConfig

\* Config.load: the merged configuration, or the TypeError of
\* _load_from_environment
LoadConfig(root_config, env) ==
  LET env_config == LoadFromEnvironment(env) IN
  IF env_config.raised THEN Raised
  ELSE IF env_config.value.o /= <<>>
  THEN Value(MergeConfig(WithRootConfig(root_config), env_config.value))
  ELSE Value(WithRootConfig(root_config))

\* the walk of Config.get along the names of the key
RECURSIVE GetFrom(_, _, _)
GetFrom(value, parts, default) ==
  IF parts = <<>> THEN value
  ELSE IF value.t = "obj" /\ HasKey(value.o, parts[1])
  THEN GetFrom(DictGet(value.o, parts[1], PyNone), Tail(parts), default)
  ELSE default

\* the environment variables a deployment may set
EnvNames ==
  { <<"APP", "SERVER", "PORT">>, <<"APP", "SERVER">>, <<"APP", "AUTH", "ENABLED">>,
    <<"APP", "LLM", "OLLAMA", "BASE", "URL">>, <<"HOME">> }
EnvValues == {"8080", "TRUE", "x"}
EnvVars == {<<name, value>> : name \in EnvNames, value \in EnvValues}
Environs ==
  {env \in UNION {[1..k -> EnvVars] : k \in 0..MaxEnv} :
     \A i, j \in 1..Len(env) : i /= j => env[i][1] /= env[j][1]}

\* what config.toml may decode to; None when the file does not exist
TomlFiles ==
  { PyNone, PyDict(<<>>),
    PyDict(<< << <<"server">>, PyDict(<< << <<"port">>, PyNum(9000)>> >>) >> >>),
    PyDict(<< << <<"server">>, PyDict(<< << <<"host">>, PyStr(<<"h">>)>> >>) >>,
              << <<"llm">>,
                 PyDict(<< << <<"ollama">>,
                              PyDict(<< << <<"base", "url">>, PyStr(<<"u">>)>> >>) >> >>) >> >>),
    PyDict(<< << <<"auth">>, PyDict(<< << <<"realm">>, PyStr(<<"r">>)>> >>) >> >>) }

\* the dotted keys asked for
ConfigKeys ==
  { << <<"server">>, <<"port">> >>, << <<"server">>, <<"host">> >>,
    << <<"auth">>, <<"enabled">> >>, << <<"auth">>, <<"realm">> >>,
    << <<"llm">>, <<"ollama">>, <<"base", "url">> >>,
    << <<"llm">>, <<"ollama">>, <<"model">> >>,
    << <<"no">>, <<"such">> >> }

\* Config.load, called on its own
ConfigLoad ==
  /\ LET c == LoadConfig(toml, environ) IN
       IF c.raised
       THEN config' = WithRootConfig(toml) /\ loaded' = FALSE
       ELSE config' = c.value /\ loaded' = TRUE
  /\ UNCHANGED <<instance, created, api_key, stability_api_key, pc, mm_log, environ, toml,
                 get_result, executeVars, createVars, other>>

\* Config.get(key): loads first when nothing is loaded, then walks the key
ConfigGet ==
  /\ \E key \in ConfigKeys :
       LET c == IF loaded THEN Value(config) ELSE LoadConfig(toml, environ) IN
         IF c.raised
         THEN /\ config' = WithRootConfig(toml) /\ loaded' = FALSE
              /\ get_result' = [key |-> key, raised |-> TRUE]
         ELSE /\ config' = c.value /\ loaded' = TRUE
              /\ get_result' = [key |-> key, raised |-> FALSE, value |-> GetFrom(c.value, key, PyNone)]
  /\ UNCHANGED <<instance, created, api_key, stability_api_key, pc, mm_log, environ, toml,
                 executeVars, createVars, other>>

(* --------------------------- specification ------------------------------ *)
\* the locals of an execute that has not started
FreshLocals ==
  [pc |-> "idle", input_data |-> Unset, llm_client |-> 0, result |-> Unset,
   story_data |-> Unset, idx |-> 0, scenes |-> <<>>, ret |-> Pending, calls |-> <<>>,
   llm_calls |-> 0]

\* the service objects after construction; ImageGenerator() reads both
\* credentials from the environment once
ServiceInit ==
  /\ instance = 0 /\ created = 0
  /\ api_key \in BOOLEAN /\ stability_api_key \in BOOLEAN
  /\ pc = "idle"
  /\ input_data = Unset /\ llm_client = 0 /\ result = Unset /\ story_data = Unset
  /\ idx = 0 /\ scenes = <<>> /\ ret = Pending /\ calls = <<>>
  /\ llm_calls = 0 /\ mm_log = <<>>
  /\ request = Unset /\ chain_result = Unset /\ parsed = Unset /\ response = Pending
  /\ other = FreshLocals

\* Config.__init__
ConfigConstructed == config = PyDict(<<>>) /\ loaded = FALSE /\ get_result = Unset

\* a deployment without a config file and without APP_ variables
Init ==
  /\ ServiceInit
  /\ environ = <<>> /\ toml = PyNone
  /\ ConfigConstructed

\* a deployment with any of the config files and environments
ConfigInit ==
  /\ ServiceInit
  /\ environ \in Environs /\ toml \in TomlFiles
  /\ ConfigConstructed

ConfigNext == ConfigLoad \/ ConfigGet

ConfigSpec == ConfigInit /\ [][ConfigNext]_vars

Next ==
  \/ Initialize
  \/ Clear
  \/ ExecuteStart
  \/ ExecuteInvoke
  \/ ExecuteImage
  \/ ExecuteFallback
  \/ ExecuteReturn
  \/ CreateStart
  \/ CreateChain
  \/ CreateReturn

Spec == Init /\ [][Next]_vars

\* the service between startup and shutdown when only the tool is called
ExecuteNext ==
  \/ Initialize
  \/ ExecuteStart
  \/ ExecuteInvoke
  \/ ExecuteImage
  \/ ExecuteFallback
  \/ ExecuteReturn

\* every awaited network call returns or times out: the step that follows
\* the await of the text backend or of an image provider is eventually taken
FairSpec ==
  /\ Init /\ [][ExecuteNext]_vars
  /\ WF_vars(ExecuteInvoke)
  /\ WF_vars(ExecuteImage)
  /\ WF_vars(ExecuteFallback)

\* the service when only the /create route is called
CreateNext ==
  \/ Initialize
  \/ Clear
  \/ CreateStart
  \/ CreateChain
  \/ CreateReturn

CreateSpec == Init /\ [][CreateNext]_vars

(* ------------------------ two executes in flight ------------------------ *)
\* the locals of the running execute
Locals ==
  [pc |-> pc, input_data |-> input_data, llm_client |-> llm_client, result |-> result,
   story_data |-> story_data, idx |-> idx, scenes |-> scenes, ret |-> ret,
   calls |-> calls, llm_calls |-> llm_calls]

\* an event loop whose two executes build their fallback scenes in one list
\* kept on the tool object
SwitchSharedScenes ==
  /\ pc \in {"idle", "invoke", "images", "fallback", "done"}
  /\ other' = Locals
  /\ pc' = other.pc /\ input_data' = other.input_data /\ llm_client' = other.llm_client
  /\ result' = other.result /\ story_data' = other.story_data /\ idx' = other.idx
  /\ scenes' = scenes /\ ret' = other.ret /\ calls' = other.calls
  /\ llm_calls' = other.llm_calls
  /\ UNCHANGED <<instance, created, api_key, stability_api_key, mm_log, createVars,
                 configVars>>

\* the event loop suspends the running execute at its await (or between two
\* requests) and resumes the other one: every local of execute lives in its
\* own coroutine frame, the module-level objects stay as they are
Switch ==
  /\ pc \in {"idle", "invoke", "images", "fallback", "done"}
  /\ other' = Locals
  /\ pc' = other.pc /\ input_data' = other.input_data /\ llm_client' = other.llm_client
  /\ result' = other.result /\ story_data' = other.story_data /\ idx' = other.idx
  /\ scenes' = other.scenes /\ ret' = other.ret /\ calls' = other.calls
  /\ llm_calls' = other.llm_calls
  /\ UNCHANGED <<instance, created, api_key, stability_api_key, mm_log, createVars,
                 configVars>>

\* two requests that differ in every field
ConcRequests ==
  { Request(1),
    [username |-> <<"v">>, prompt |-> <<"q">>, genre |-> <<"h">>, age_group |-> <<"b">>,
     scene_count |-> 2] }

\* the answers of the text backend while two executes are in flight
ConcResults ==
  { OllamaInvoke("timeout", <<>>),
    OllamaInvoke("ok", JsonDumps(BackendStory(<<"bare", "bare">>))),
    OllamaInvoke("ok", JsonDumps(BackendStory(<<"bare", "text">>))) }

\* the service with two executes interleaved at their awaits; an image
\* provider that fails does so for the first fallback scene only
ConcNext ==
  \/ Initialize
  \/ \E req \in ConcRequests : ExecuteStartWith(req)
  \/ ExecuteInvoke /\ result' \in ConcResults
  \/ ExecuteImage
  \/ ExecuteFallback /\ (Len(scenes') > 1 => Truthy(calls'[Len(calls')].returned))
  \/ ExecuteReturn
  \/ Switch

ConcSpec == Init /\ [][ConcNext]_vars

(* ------------------------------ properties ------------------------------ *)
\* execute has returned an OutputSchema
Returned == pc = "done" /\ ret.kind = "OutputSchema"

\* the story the caller decodes from the returned result string
Narrative == JsonLoads(ret.result).v

\* the scenes of a story object, as a sequence (empty when it has no list)
ScenesIn(sd) ==
  IF sd.t /= "obj" THEN <<>>
  ELSE LET sc == DictGet(sd.o, K("scenes"), PyList(<<>>)) IN
    IF sc.t = "arr" THEN sc.a ELSE <<>>

SceneField(scene, name) == IF scene.t = "obj" THEN DictGet(scene.o, K(name), PyNone) ELSE PyNone

\* the text backend answered with text that json.loads decodes
DirectlyDecoded == result /= Unset /\ ~result.raised /\ JsonLoads(result.value).ok

\* C1: for every request with scene_count N >= 1 and every combination of
\* upstream outcomes, the narrative execute returns has exactly N scenes.
C1_ExactlyNScenes ==
  Returned => Len(ScenesIn(Narrative)) = input_data.scene_count

\* C2: every scene of every narrative execute returns carries a non-empty
\* image, whatever credentials are set and whatever the providers answer.
C2_EverySceneHasImage ==
  Returned => \A i \in 1..Len(ScenesIn(Narrative)) :
                Truthy(SceneField(ScenesIn(Narrative)[i], "image"))

\* C3: execute never fails for a schema-valid request: it ends by returning a
\* narrative result, never by raising (HTTP 500) and never by returning nothing.
C3_ExecuteNeverFails ==
  pc = "done" => ret.kind = "OutputSchema"

\* C4: generate_image never returns an empty or null payload, whatever
\* credentials are set and however each provider call ends.
C4_ImageNeverEmpty ==
  \A i \in 1..Len(calls) : Truthy(calls[i].returned)

\* C5: a failure of a configured network provider demotes to the next tier:
\* when provider A is tried and yields nothing, provider B is tried next if its
\* credential is set, and otherwise the local rendering is produced.
C5_FailureDemotes ==
  \A i \in 1..Len(calls) :
    LET c == calls[i] IN
    \A j \in 1..Len(c.tiers) :
      (c.tiers[j] /= "mock" /\ ~c.produced[j]) =>
        /\ j < Len(c.tiers)
        /\ c.tiers[j + 1] = (IF c.tiers[j] = "dalle" /\ stability_api_key
                             THEN "stability" ELSE "mock")

\* C6: when the text backend call fails or times out, the fallback builder
\* produces exactly the requested number of scenes, each with an image.
C6_FallbackBuildsN ==
  (Returned /\ result.raised) =>
    /\ Len(ScenesIn(Narrative)) = input_data.scene_count
    /\ \A i \in 1..Len(ScenesIn(Narrative)) :
         Truthy(SceneField(ScenesIn(Narrative)[i], "image"))

\* C7: every value execute returns conforms to the schema get_output_schema
\* declares: it carries that schema's required fields and no others.
C7_ReturnConformsToSchema ==
  (pc = "done" /\ ret.kind /= "HTTPException") =>
    LET fields == IF ret.kind = "OutputSchema" THEN SchemaFields.OutputSchema.required ELSE {}
        schema == SchemaFields[GetOutputSchema]
    IN schema.required \subseteq fields /\ fields \subseteq schema.required \cup schema.optional

\* C8: when the text backend returns a JSON object wrapped in prose, the
\* embedded object is extracted and execute returns a narrative built from
\* that object's scenes, with an image attached to each.
C8_WrappedJsonIsUsed ==
  (pc = "done" /\ result /= Unset /\ ~result.raised /\ result.value \in WrappedTexts) =>
    /\ ExtractJson(result.value).ok
    /\ ret.kind = "OutputSchema"
    /\ Len(ScenesIn(Narrative)) >= Len(ScenesIn(ExtractJson(result.value).v))
    /\ \A i \in 1..Len(ScenesIn(ExtractJson(result.value).v)) :
         Truthy(SceneField(ScenesIn(Narrative)[i], "image"))

\* C9: execute diverts to the fallback builder only when generation or
\* extraction fails: when the backend returns directly decodable JSON whose
\* scenes all carry non-empty story text, the returned scene texts are the
\* extracted ones, not the fallback templates.
C9_DecodedTextsKept ==
  (pc = "done" /\ DirectlyDecoded
     /\ ScenesIn(JsonLoads(result.value).v) /= <<>>
     /\ \A i \in 1..Len(ScenesIn(JsonLoads(result.value).v)) :
          Truthy(SceneField(ScenesIn(JsonLoads(result.value).v)[i], "story_text"))) =>
    /\ ret.kind = "OutputSchema"
    /\ \A i \in 1..Len(ScenesIn(JsonLoads(result.value).v)) :
         i <= Len(ScenesIn(Narrative)) =>
           SceneField(ScenesIn(Narrative)[i], "story_text")
             = SceneField(ScenesIn(JsonLoads(result.value).v)[i], "story_text")

\* C10: when the backend returns valid JSON with k scenes and k is smaller
\* than the requested N, the returned narrative keeps those k scenes in order
\* as scenes 1..k and appends N-k scenes from the generic description library
\* keyed by ordinal.
C10_ShortStoryPadded ==
  (pc = "done" /\ DirectlyDecoded
     /\ JsonLoads(result.value).v.t = "obj"
     /\ HasKey(JsonLoads(result.value).v.o, K("scenes"))
     /\ DictGet(JsonLoads(result.value).v.o, K("scenes"), PyNone).t = "arr"
     /\ \A i \in 1..Len(ScenesIn(JsonLoads(result.value).v)) :
          ScenesIn(JsonLoads(result.value).v)[i].t = "obj"
     /\ Len(ScenesIn(JsonLoads(result.value).v)) < input_data.scene_count) =>
    LET got == ScenesIn(JsonLoads(result.value).v) IN
    /\ ret.kind = "OutputSchema"
    /\ Len(ScenesIn(Narrative)) = input_data.scene_count
    /\ \A i \in 1..Len(got) :
         SceneField(ScenesIn(Narrative)[i], "story_text") = SceneField(got[i], "story_text")
    /\ \A j \in (Len(got) + 1)..input_data.scene_count :
         SceneField(ScenesIn(Narrative)[j], "story_text")
           = PyStr(<<"Scene ", NumSym(j), ": ">> \o GetSceneDescription(j))

\* C11: the scene_number values of every returned narrative are exactly
\* 1..N in sequence order, with no gap, no duplicate and no out-of-range
\* value, whatever ordinals the backend wrote.
C11_OrdinalsAreOneToN ==
  Returned =>
    /\ Len(ScenesIn(Narrative)) = input_data.scene_count
    /\ \A i \in 1..Len(ScenesIn(Narrative)) :
         SceneField(ScenesIn(Narrative)[i], "scene_number") = PyNum(i)

\* the backend answered with exactly this text
BackendSaid(text) == result /= Unset /\ ~result.raised /\ result.value = text

\* C12 as written: the array of two scene objects keyed by "id" with no comma
\* between them is repaired and extracts to two scenes with ordinals 1 and 2.
C12_IdKeyedArrayRepaired ==
  BackendSaid(MissingComma("id")) =>
    /\ Len(ScenesIn(story_data)) = 2
    /\ \A i \in 1..2 : SceneField(ScenesIn(story_data)[i], "id") = PyNum(i)

\* C12 amended: the same array keyed by "scene_number", the key the repair
\* pattern names, extracts to two scenes with ordinals 1 and 2 in order, each
\* keeping its description.
C12_SceneNumberKeyedArrayRepaired ==
  BackendSaid(MissingComma("scene_number")) =>
    /\ ~JsonLoads(result.value).ok
    /\ Len(ScenesIn(story_data)) = 2
    /\ \A i \in 1..2 : SceneField(ScenesIn(story_data)[i], "scene_number") = PyNum(i)
    /\ SceneField(ScenesIn(story_data)[1], "description") = PyStr(<<"a">>)
    /\ SceneField(ScenesIn(story_data)[2], "description") = PyStr(<<"b">>)

C12_Witness ==
  BackendSaid(MissingComma("scene_number")) /\ Len(ScenesIn(story_data)) = 2

\* the scenes of the directly decoded backend object
DecodedScenes == ScenesIn(JsonLoads(result.value).v)

\* C13: a scene that already has a non-empty image after extraction keeps
\* exactly that image in the returned narrative and the synthesizer is not
\* called for it, whether or not the scene also carries story text.
C13_ExistingImageKept ==
  (pc = "done" /\ DirectlyDecoded
     /\ (\A i \in 1..Len(DecodedScenes) : DecodedScenes[i].t = "obj")
     /\ (\E i \in 1..Len(DecodedScenes) : Truthy(SceneField(DecodedScenes[i], "image")))) =>
    /\ ret.kind = "OutputSchema"
    /\ \A i \in 1..Len(DecodedScenes) :
         Truthy(SceneField(DecodedScenes[i], "image")) =>
           /\ i <= Len(ScenesIn(Narrative))
           /\ SceneField(ScenesIn(Narrative)[i], "image")
                = SceneField(DecodedScenes[i], "image")
    /\ Len(calls) <= Cardinality({i \in 1..Len(DecodedScenes) :
                                   ~Truthy(SceneField(DecodedScenes[i], "image"))})

\* C14: every synthesizer call execute makes for a scene lacking an image
\* is made with that scene's own descriptive text as prompt and the request's
\* genre as style, on the extracted path and on the fallback path alike.
C14_CallsUseSceneTextAndGenre ==
  Returned =>
    \A c \in 1..Len(calls) :
      /\ calls[c].style = input_data.genre
      /\ \E j \in 1..Len(ScenesIn(Narrative)) :
           SceneField(ScenesIn(Narrative)[j], "story_text") = PyStr(calls[c].prompt)

\* the key names of a decoded object
Keys(d) == IF d.t = "obj" THEN {d.o[i][1][1] : i \in 1..Len(d.o)} ELSE {}

\* C16: a returned narrative has the shape the fallback builder writes,
\* whichever path produced it: the top-level fields title, theme, target
\* audience and scenes, and per scene the ordinal, the text and the image.
C16_OneResultShape ==
  Returned =>
    /\ Keys(Narrative) = {"title", "theme", "target_age", "scenes"}
    /\ \A i \in 1..Len(ScenesIn(Narrative)) :
         Keys(ScenesIn(Narrative)[i]) = {"scene_number", "story_text", "image"}

\* C17: every non-empty payload generate_image returns, whichever tier made
\* it (DALL-E, Stability, local mock), is the prefix 'data:image/png;base64,'
\* followed by the payload.
C17_PayloadIsPngDataUrl ==
  \A c \in 1..Len(calls) :
    Truthy(calls[c].returned) =>
      /\ calls[c].returned.t = "str"
      /\ Len(calls[c].returned.s) >= 2
      /\ calls[c].returned.s[1] = DataPrefix

C17_Witness ==
  \E c \in 1..Len(calls) :
    /\ calls[c].tiers = <<"stability">>
    /\ Truthy(calls[c].returned)
    /\ calls[c].returned.s[1] = DataPrefix

\* C15: within one execute the text backend is invoked at most once and
\* that invoke sends exactly one HTTP request, with no retry: once the
\* backend has answered or failed exactly one request has been sent, and a
\* failed request leads to the fallback builder without a second one.
C15_OneRequestNoRetry ==
  /\ llm_calls <= 1
  /\ result /= Unset => llm_calls = 1
  /\ (result /= Unset /\ result.raised) =>
       /\ pc \in {"fallback", "done"}
       /\ pc = "done" => ret.kind = "OutputSchema" /\ Len(calls) = 5

C15_Witness ==
  /\ pc = "fallback" /\ result /= Unset /\ result.raised
  /\ result.why = "timeout" /\ llm_calls = 1 /\ Len(scenes) = 2

\* the clients constructed since the last clear, in order of construction
SinceClear ==
  LET cl == {i \in 1..Len(mm_log) : mm_log[i] = 0}
      last == IF cl = {} THEN 0 ELSE CHOOSE i \in cl : \A x \in cl : x <= i
  IN SubSeq(mm_log, last + 1, Len(mm_log))

\* C18: after any sequence of initialize and clear, get_model returns the one
\* client constructed by the earliest successful initialize since the last
\* clear (a later initialize constructs and replaces nothing) and raises
\* RuntimeError when there is none; it never returns None.  execute holds
\* what get_model gave it.
C18_GetModelIsEarliestClient ==
  /\ Len(SinceClear) <= 1
  /\ GetModel(instance).raised <=> SinceClear = <<>>
  /\ ~GetModel(instance).raised =>
       GetModel(instance).value = SinceClear[1] /\ GetModel(instance).value /= 0
  /\ pc \in {"invoke", "images", "fallback"} =>
       SinceClear /= <<>> /\ llm_client = SinceClear[1]
  /\ (pc = "done" /\ SinceClear = <<>>) => ret = HTTPException

C18_Witness ==
  mm_log = <<1, 0, 2>> /\ pc = "invoke" /\ llm_client = 2

\* the value _parse_llm_response was called with
StoryJson == StoryJsonOf[chain_result.value].v

\* a decoded story object: an object whose "scenes" is a list of objects
IsStoryObject(v) ==
  /\ v.t = "obj"
  /\ HasKey(v.o, K("scenes"))
  /\ DictGet(v.o, K("scenes"), PyNone).t = "arr"
  /\ \A i \in 1..Len(ScenesIn(v)) : ScenesIn(v)[i].t = "obj"

\* the field is absent or a string
StrOrAbsent(d, name) == HasKey(d.o, K(name)) => DictGet(d.o, K(name), PyNone).t = "str"

\* the Story has exactly N scenes with ids 1..N by position; the first
\* min(k, N) carry the backend's scenes in order, every scene j > k is the
\* generic scene of ordinal j
ReconciledFrom(story, v, req) ==
  /\ Len(story.scenes) = req.scene_count
  /\ \A i \in 1..Len(story.scenes) : story.scenes[i].id = i
  /\ \A i \in 1..Len(story.scenes) :
       i <= Len(ScenesIn(v)) =>
         /\ SceneField(ScenesIn(v)[i], "description").t = "str" =>
              story.scenes[i].description = SceneField(ScenesIn(v)[i], "description").s
         /\ SceneField(ScenesIn(v)[i], "imagePrompt").t = "str" =>
              story.scenes[i].imagePrompt = SceneField(ScenesIn(v)[i], "imagePrompt").s
  /\ \A j \in (Len(ScenesIn(v)) + 1)..req.scene_count :
       /\ story.scenes[j].description
            = <<"Scene ", NumSym(j), ": ">> \o GetSceneDescription(j)
       /\ story.scenes[j] = GenericScene(j, req)

\* C19 as written: for every decoded story object with k scenes and every
\* requested N >= 0, _parse_llm_response returns a Story with exactly N scenes,
\* ids 1..N, the first min(k, N) extracted in order, the rest from the generic
\* library keyed by ordinal.
C19_ParseAlwaysReturnsNScenes ==
  (/\ pc = "created" /\ parsed /= Unset /\ IsStoryObject(StoryJson)
   /\ request.scene_count >= 0) =>
    /\ ~parsed.raised
    /\ ReconciledFrom(parsed.value, StoryJson, request)

\* C19 amended: the same holds for every decoded story object whose title and
\* whose scenes' description and imagePrompt are strings where present; a null
\* description in any of the k scenes makes _parse_llm_response raise
\* ValueError instead.
C19_ParseReturnsNScenesOfTypedStory ==
  (/\ pc = "created" /\ parsed /= Unset /\ IsStoryObject(StoryJson)
   /\ request.scene_count >= 0) =>
    /\ (/\ StrOrAbsent(StoryJson, "title")
        /\ \A i \in 1..Len(ScenesIn(StoryJson)) :
             /\ StrOrAbsent(ScenesIn(StoryJson)[i], "description")
             /\ StrOrAbsent(ScenesIn(StoryJson)[i], "imagePrompt")) =>
         /\ ~parsed.raised
         /\ ReconciledFrom(parsed.value, StoryJson, request)
    /\ (\E i \in 1..Len(ScenesIn(StoryJson)) :
          SceneField(ScenesIn(StoryJson)[i], "description") = PyNone
            /\ HasKey(ScenesIn(StoryJson)[i].o, K("description"))) =>
         parsed.raised

C19_Witness ==
  /\ pc = "created" /\ parsed /= Unset /\ ~parsed.raised
  /\ IsStoryObject(StoryJson)
  /\ Len(ScenesIn(StoryJson)) = 1
  /\ request.scene_count = 3
  /\ parsed.value.scenes[1].description = <<"d", "1">>
  /\ parsed.value.scenes[3] = GenericScene(3, request)

\* the LLM-derived story failed: the chain raised, its text did not decode,
\* parsing raised or validation raised
LlmStoryFailed ==
  \/ chain_result.raised
  \/ parsed = Unset
  \/ parsed.raised
  \/ ~ValidateStory(parsed.value, request)

\* C20: for N >= 1 and every outcome of the LLM chain, _generate_story returns
\* without raising a Story with exactly N scenes, ids 1..N, each with a
\* non-empty description and imagePrompt; whenever the LLM-derived story
\* fails parsing or validation the mock story replaces it entirely.
C20_GenerateStoryAlwaysValid ==
  (pc = "created" /\ request.scene_count >= 1) =>
    /\ response.success
    /\ Len(response.data.scenes) = request.scene_count
    /\ \A i \in 1..Len(response.data.scenes) :
         /\ response.data.scenes[i].id = i
         /\ response.data.scenes[i].description /= <<>>
         /\ response.data.scenes[i].imagePrompt /= <<>>
    /\ LlmStoryFailed => response.data = GenerateMockStory(request)
    /\ ~LlmStoryFailed => response.data = parsed.value

C20_Witness ==
  /\ pc = "created" /\ request.scene_count = 2
  /\ parsed /= Unset /\ ~parsed.raised
  /\ parsed.value.scenes[1].description = <<>>
  /\ response.success
  /\ response.data = GenerateMockStory(request)

\* C21: _validate_story accepts a story only if all four conditions hold: the
\* scene count equals the requested count, the scene ids are contiguous 1..N,
\* every scene has a non-empty description, and every scene has a non-empty
\* image.
C21_ValidationChecksFourConditions ==
  (pc = "created" /\ response.success) =>
    /\ ValidateStory(response.data, request)
    /\ Len(response.data.scenes) = request.scene_count
    /\ \A i \in 1..Len(response.data.scenes) :
         /\ response.data.scenes[i].id = i
         /\ response.data.scenes[i].description /= <<>>
         /\ Truthy(response.data.scenes[i].imageUrl)

\* the span from the first "{" to the last "}" of the backend's text
BraceSpan == JsonMatch(result.value)

\* C22: repairs are applied only after the strict decode of the brace span
\* has failed: for every text that is not directly decodable but whose span
\* from the first "{" to the last "}" is strictly decodable, the extractor's
\* result is the strict decode of that unmodified span.
C22_DecodableSpanNotRepaired ==
  (/\ pc \in {"images", "fallback", "done"}
   /\ result /= Unset /\ ~result.raised /\ ~IsBlankText(result.value)
   /\ ~JsonLoads(result.value).ok
   /\ BraceSpan.ok /\ JsonLoads(BraceSpan.v).ok) =>
    story_data = JsonLoads(BraceSpan.v).v

\* the texts that hold no brace span or whose span does not decode after the
\* repairs, and that do not decode directly either
Unextractable ==
  {t \in RawTexts :
     /\ ~JsonLoads(t).ok
     /\ \/ ~JsonMatch(t).ok
        \/ ~JsonLoads(FixJson(JsonMatch(t).v)).ok}

\* C23: when the backend's text holds no brace span, or the span is still
\* undecodable after the repairs, execute goes to the fallback builder and
\* returns its narrative; nothing decoded from the text is kept or returned.
C23_ExtractionFailureFallsBack ==
  (pc \in {"images", "fallback", "done"} /\ result /= Unset /\ ~result.raised
     /\ result.value \in Unextractable) =>
    /\ pc \in {"fallback", "done"}
    /\ story_data = Unset
    /\ pc = "done" =>
         /\ ret = OutputSchema(FallbackStory(input_data, scenes))
         /\ Len(scenes) = 5
         /\ \A i \in 1..5 :
              /\ SceneField(scenes[i], "story_text")
                   = PyStr(SceneDescriptions(input_data.prompt)[i])
              /\ SceneField(scenes[i], "image") = calls[i].returned

C23_Witness ==
  /\ pc = "done" /\ BackendSaid(MissingComma("id"))
  /\ ret = OutputSchema(FallbackStory(input_data, scenes))

\* every failure of the HTTP call leaves invoke as a raised exception
InvokeFailuresRaise ==
  \A outcome \in HttpOutcomes \ {"ok"}, text \in RawTexts :
    OllamaInvoke(outcome, text).raised

\* C24: OllamaClient.invoke surfaces a timeout, a transport error and a
\* non-200 status alike as a raised exception, and execute treats each the
\* same way: it goes to the fallback builder and returns its narrative, which
\* does not depend on the kind of failure; nothing is propagated to the caller.
C24_InvokeFailuresAlike ==
  /\ InvokeFailuresRaise
  /\ (result /= Unset /\ result.raised) =>
       /\ result.why \in {"status", "timeout", "transport"}
       /\ pc \in {"fallback", "done"}
       /\ story_data = Unset
       /\ ret \notin {HTTPException, ReturnsNone}
       /\ pc = "done" => ret = OutputSchema(FallbackStory(input_data, scenes))

C24_Witness ==
  /\ pc = "done" /\ result /= Unset /\ result.raised /\ result.why = "status"
  /\ ret = OutputSchema(FallbackStory(input_data, scenes))

\* the place of a tier in the order DALL-E, Stability, local rendering
TierRank(tier) == CASE tier = "dalle" -> 1 [] tier = "stability" -> 2 [] tier = "mock" -> 3

\* tier was called before position i of the call and produced nothing
FailedBefore(call, tier, i) ==
  \E j \in 1..(i - 1) : call.tiers[j] = tier /\ ~call.produced[j]

\* C25: in generate_image the tiers are called in the order DALL-E,
\* Stability, local rendering and the first success wins: a later tier is
\* called only if every earlier tier was unconfigured or failed, a provider's
\* payload is returned without calling a later tier, and with no credential
\* no network call is made.
C25_TiersInOrderFirstSuccessWins ==
  \A c \in 1..Len(calls) :
    LET call == calls[c]
        n == Len(call.tiers)
    IN /\ n >= 1
       /\ \A i, j \in 1..n : i < j => TierRank(call.tiers[i]) < TierRank(call.tiers[j])
       /\ \A i \in 1..n :
            /\ call.tiers[i] \in {"stability", "mock"} =>
                 ~api_key \/ FailedBefore(call, "dalle", i)
            /\ call.tiers[i] = "mock" =>
                 ~stability_api_key \/ FailedBefore(call, "stability", i)
            /\ call.produced[i] => i = n
       /\ (~api_key /\ ~stability_api_key) => call.tiers = <<"mock">>
       /\ call.produced[n] =>
            call.returned =
              CASE call.tiers[n] = "dalle" -> GenerateWithDalle("ok")
                [] call.tiers[n] = "stability" -> GenerateWithStability("ok")
                [] call.tiers[n] = "mock" -> GenerateMockImage(call.prompt, call.style)
       /\ ~call.produced[n] => call.returned = PyNone

C25_Witness ==
  /\ api_key /\ stability_api_key
  /\ \E c \in 1..Len(calls) :
       /\ calls[c].tiers = <<"dalle">> /\ calls[c].produced = <<TRUE>>
       /\ calls[c].returned = GenerateWithDalle("ok")

\* an execute is waiting for the text backend or for an image
InFlight == pc \in {"invoke", "images", "fallback"}

\* the image calls made so far are no more than the scenes worked on: the
\* decoded scenes and the scenes the fallback builder has appended
CallsBounded ==
  /\ llm_calls <= 1
  /\ Len(calls) <= Len(ScenesIn(story_data)) + Len(scenes)
  /\ Len(scenes) <= 5

\* C26: every execute terminates: given that each network call returns or
\* times out, the invocation reaches its return, after a number of image
\* calls bounded by the number of scenes processed and with no retry.
C26_ExecuteTerminates ==
  /\ []CallsBounded
  /\ InFlight ~> pc = "done"

C26_Witness ==
  /\ pc = "done" /\ Len(ScenesIn(story_data)) = 2 /\ Len(scenes) = 5 /\ Len(calls) = 6

C29_CreateStoryResponseShape ==
  pc = "created" =>
    /\ response.success \in BOOLEAN
    /\ response.success =>
         /\ response.data /= PyNone
         /\ DOMAIN response.data = {"title", "scenes"}
         /\ response.error = PyNone
    /\ ~response.success =>
         /\ response.data = PyNone
         /\ response.error.t = "str" /\ response.error.s /= <<>>
    /\ response.success <=> request.scene_count >= 0

C29_Witness ==
  /\ pc = "created"
  /\ ~response.success /\ response.data = PyNone /\ Truthy(response.error)
  /\ request.scene_count = -1
  /\ ~chain_result.raised

\* the words of a dotted key run together, as writing "_" for "." makes them
RECURSIVE KeyWords(_)
KeyWords(key) == IF key = <<>> THEN <<>> ELSE key[1] \o KeyWords(Tail(key))

\* var is the APP_ variable of the dotted key: APP_SERVER_PORT for server.port
MapsTo(var, key) ==
  /\ Len(var[1]) >= 2 /\ var[1][1] = "APP"
  /\ [j \in 1..(Len(var[1]) - 1) |-> Lower(var[1][j + 1])] = KeyWords(key)

\* the source holds a value under the dotted key
HasPath(source, key) == source /= PyNone /\ GetFrom(source, key, Unset) /= Unset

\* C30: Config.load merges defaults, config file and environment, later
\* sources overriding earlier ones key by key: for every dotted key Config.get
\* returns the environment value if an APP_ variable maps to the key, else the
\* file value if present, else the default.
C30_LaterSourceWinsKeyByKey ==
  get_result /= Unset =>
    /\ ~get_result.raised
    /\ LET key == get_result.key
           overriding == {i \in 1..Len(environ) : MapsTo(environ[i], key)}
       IN get_result.value =
            IF overriding /= {}
            THEN TypedValue(environ[CHOOSE i \in overriding : TRUE][2])
            ELSE IF HasPath(toml, key) THEN GetFrom(toml, key, PyNone)
            ELSE GetFrom(GetDefaultConfig, key, PyNone)

\* the fallback narrative of req with the payloads ps, one per scene
FallbackOf(req, ps) ==
  OutputSchema(FallbackStory(req,
    [i \in 1..Len(ps) |-> FallbackScene(i, SceneDescriptions(req.prompt)[i], ps[i])]))

\* execute run on its own from scene k of sd on, ps being what its
\* generate_image calls return, in order
RECURSIVE LoopAlone(_, _, _, _)
LoopAlone(req, sd, k, ps) ==
  LET go == SceneLoop(sd, k) IN
  IF go.st = "raise" THEN FallbackOf(req, ps)
  ELSE IF go.st = "await"
  THEN LoopAlone(req, SetSceneImage(sd, go.idx, ps[1]), go.idx + 1, Tail(ps))
  ELSE OutputSchema(sd)

\* what an execute of request l.input_data returns when it runs alone and
\* its backends answer as they answered l: the text l.result, the image
\* payloads of l.calls
Alone(l) ==
  LET ps == [i \in 1..Len(l.calls) |-> l.calls[i].returned] IN
  IF l.llm_client = 0 THEN HTTPException
  ELSE IF l.result.raised \/ IsBlankText(l.result.value) THEN FallbackOf(l.input_data, ps)
  ELSE LET d == JsonLoads(l.result.value) IN
    IF d.ok THEN LoopAlone(l.input_data, d.v, 1, ps)
    ELSE IF ExtractJson(l.result.value).ok THEN ReturnsNone
    ELSE FallbackOf(l.input_data, ps)

\* the prompts an execute of req passes to generate_image
OwnPrompts(req) ==
  {req.prompt} \cup {SceneDescriptions(req.prompt)[i] : i \in 1..5}

\* the execute with locals l has kept to its own request and responses
Isolated(l) ==
  /\ l.pc = "done" => l.ret = Alone(l)
  /\ l.pc \in {"invoke", "images", "fallback", "done"} =>
       \A c \in 1..Len(l.calls) :
         /\ l.calls[c].prompt \in OwnPrompts(l.input_data)
         /\ l.calls[c].style \in {<<"digital art">>, l.input_data.genre}

\* C27: for any interleaving of two in-flight executes at their awaits, what
\* each returns is what it returns when run alone on its own request with its
\* own backend responses, and every image call it makes carries its own
\* request's prompt and genre: neither reads or writes the other's state.
C27_InterleavedExecutesIsolated == Isolated(Locals) /\ Isolated(other)

C27_Witness ==
  /\ pc = "done" /\ Len(calls) = 5
  /\ ret = FallbackOf(input_data, [i \in 1..5 |-> calls[i].returned])
  /\ other.pc = "fallback" /\ Len(other.scenes) = 2 /\ Len(other.calls) = 2
  /\ other.input_data /= input_data
  /\ calls[1].returned /= other.calls[1].returned

====
